---- MODULE Spec2Model ----
(***************************************************************************)
(* Model of the useWebSocket hook (frontend/src/hooks/useWebSocket.ts):    *)
(* the connection manager behind the log panes.  The hook's React state,   *)
(* its refs, the transports it has created and the retry timers it has     *)
(* scheduled are the state; the consumer's calls, the transport's events   *)
(* and the timer firings are the actions.  The transport follows the       *)
(* browser WebSocket: close() moves it to CLOSING at once and its events   *)
(* are delivered later, each as one task of the event loop.                *)
(* A second part models the LogViewer component                            *)
(* (frontend/src/components/common/LogViewer.tsx), which opens its own     *)
(* WebSocket: its props, its state and the sockets it has created.         *)
(***************************************************************************)
EXTENDS Integers, Sequences, FiniteSets, TLC

(* ---------------------------- bounds ----------------------------------- *)
MaxTransports == 3      \* transports one hook instance may create in a run
MaxAttempts == 2        \* largest value of the reconnectAttempts option
MaxSockets == 2         \* sockets one LogViewer may create in a run
MaxLines == 2           \* lines the stream may append to one LogViewer in a run

(* ------------------------- JavaScript values --------------------------- *)
\* A JavaScript value: its kind and its canonical text.
JSUndefined == [k |-> "undefined", x |-> ""]
JSNull == [k |-> "null", x |-> ""]
JSStr(x) == [k |-> "str", x |-> x]
JSNum(x) == [k |-> "num", x |-> x]
JSObj(x) == [k |-> "obj", x |-> x]

\* JavaScript truthiness, as used by the || operator.
Truthy(v) ==
    /\ v.k \notin {"undefined", "null"}
    /\ ~(v.k = "str" /\ v.x = "")
    /\ ~(v.k = "num" /\ v.x \in {"0", "NaN"})
    /\ ~(v.k = "bool" /\ v.x = "false")

\* a || b
Or(a, b) == IF Truthy(a) THEN a ELSE b

\* new Date().toISOString()
Now == JSStr("<now>")

\* The inbound text frames the model feeds to the hook.
Frames ==
    { "line1",
      "",
      "null",
      "42",
      "{\"type\":\"log\",\"data\":\"line2\",\"timestamp\":\"t1\"}",
      "{\"type\":\"log\",\"data\":\"line2\"}",
      "{\"type\":\"\",\"data\":0,\"timestamp\":\"\"}" }

\* The frames of the connection's life-cycle specification: a plain log line
\* and a JSON primitive.
StreamFrames == {"line1", "null"}

\* JSON.parse on the frames above: ok = FALSE when it throws a SyntaxError;
\* otherwise the parsed value v and, for an object, its three fields
\* (JSUndefined for a field the object does not carry).
Parsed(v, type, data, timestamp) ==
    [ok |-> TRUE, v |-> v, type |-> type, data |-> data, timestamp |-> timestamp]

JSONParse(raw) ==
    CASE raw = "null" -> Parsed(JSNull, JSUndefined, JSUndefined, JSUndefined)
      [] raw = "42" -> Parsed(JSNum("42"), JSUndefined, JSUndefined, JSUndefined)
      [] raw = "{\"type\":\"log\",\"data\":\"line2\",\"timestamp\":\"t1\"}" ->
            Parsed(JSObj(raw), JSStr("log"), JSStr("line2"), JSStr("t1"))
      [] raw = "{\"type\":\"log\",\"data\":\"line2\"}" ->
            Parsed(JSObj(raw), JSStr("log"), JSStr("line2"), JSUndefined)
      [] raw = "{\"type\":\"\",\"data\":0,\"timestamp\":\"\"}" ->
            Parsed(JSObj(raw), JSStr(""), JSNum("0"), JSStr(""))
      [] OTHER -> [ok |-> FALSE, v |-> JSUndefined, type |-> JSUndefined,
                   data |-> JSUndefined, timestamp |-> JSUndefined]

\* A WebSocketMessage; NoMessage stands for null.
WebSocketMessage(type, data, timestamp) ==
    [type |-> type, data |-> data, timestamp |-> timestamp]

NoMessage == WebSocketMessage(JSNull, JSNull, JSNull)

\* The body of the onmessage handler's outer try block: threw = TRUE when
\* reading a property of the parsed value raises a TypeError, which the
\* outer catch swallows; otherwise msg is the message built.
BuildMessage(raw) ==
    LET p == JSONParse(raw)
        messageData ==
            IF p.ok THEN p
            ELSE Parsed(JSObj("<wrapper>"), JSStr("message"), JSStr(raw), Now)
    IN  IF messageData.v.k = "null"
        THEN [threw |-> TRUE, msg |-> NoMessage]
        ELSE [threw |-> FALSE,
              msg |-> WebSocketMessage(Or(messageData.type, JSStr("message")),
                                       Or(messageData.data, messageData.v),
                                       Or(messageData.timestamp, Now))]

(* ------------------------------ state ---------------------------------- *)
VARIABLES
    isConnected,          \* useState(false)
    isConnecting,         \* useState(false)
    error,                \* useState(null): "null" or the error text
    lastMessage,          \* useState(null): NoMessage or the last message
    connectionStatus,     \* useState('disconnected')
    ws,                   \* ws.current: 0 (null) or the index of a transport
    reconnectTimeoutRef,  \* reconnectTimeoutRef.current: 0 (null) or a timer id
    reconnectCountRef,    \* reconnectCountRef.current
    isMountedRef,         \* isMountedRef.current
    transports,           \* every WebSocket this hook instance has created
    timers,               \* ids of the retry timers that are pending
    log,                  \* what the last step did: callbacks and transport calls
    delivered,            \* argument of the last step's onMessage call
    written,              \* text the last step passed to WebSocket.send
    url,                  \* the url argument of the current render
    autoConnect,          \* the autoConnect option of the current render
    reconnectAttempts,    \* the reconnectAttempts option, the same in every render
    phase,                \* "init" (rendered, effects not run), "mounted", "unmounted"
    afterDisconnect,      \* history: disconnect() was called and connect() not since
    exhausted             \* history: an abnormal close found the retry budget
                          \* used up; no connect() call or counter reset since

\* The state of a LogViewer component (components/common/LogViewer.tsx).
VARIABLES
    lvPhase,              \* "init" (rendered, effects not run), "mounted", "unmounted"
    websocketUrl,         \* prop: "undefined" or a url
    isStreaming,          \* prop
    logs,                 \* prop: the lines the parent passes
    searchQuery,          \* useState('')
    levelFilter,          \* useState('all')
    filteredLogs,         \* useState([]): the displayed lines
    wsConnection,         \* useState(null): 0 or the index of a socket
    lvConnectionStatus,   \* the viewer's useState('disconnected') connectionStatus
    sockets,              \* readyState of every WebSocket the viewer has created
    effectWs,             \* the ws of the effect run whose cleanup is pending, or 0
    streamed              \* history: the lines appended from the stream, in order

viewerVars == <<lvPhase, websocketUrl, isStreaming, logs, searchQuery,
                levelFilter, filteredLogs, wsConnection, lvConnectionStatus,
                sockets, effectWs, streamed>>

hookVars == <<isConnected, isConnecting, error, lastMessage, connectionStatus,
              ws, reconnectTimeoutRef, reconnectCountRef, isMountedRef,
              transports, timers, log, delivered, written>>

vars == <<isConnected, isConnecting, error, lastMessage, connectionStatus,
          ws, reconnectTimeoutRef, reconnectCountRef, isMountedRef,
          transports, timers, log, delivered, written,
          url, autoConnect, reconnectAttempts, phase, afterDisconnect,
          exhausted>>

\* WebSocket.readyState
CONNECTING == 0
OPEN == 1
CLOSING == 2
CLOSED == 3

\* The url argument: null, an address the WebSocket constructor accepts, and
\* one it rejects by throwing.
NoUrl == "null"
GoodUrl == "ws://host/logs/abc123"
BadUrl == "not a url"
Urls == {NoUrl, GoodUrl, BadUrl}

NoError == "null"

\* Payloads handed to sendMessage: a string, a plain object and an object
\* JSON.stringify throws on.
Payloads == {"ping", "{type:'ping'}", "<circular>"}

\* The hook's state and its environment as one record, so that a handler is
\* a function from state to state and handlers compose.
Cur ==
    [isConnected |-> isConnected, isConnecting |-> isConnecting,
     error |-> error, lastMessage |-> lastMessage,
     connectionStatus |-> connectionStatus, ws |-> ws,
     reconnectTimeoutRef |-> reconnectTimeoutRef,
     reconnectCountRef |-> reconnectCountRef, isMountedRef |-> isMountedRef,
     transports |-> transports, timers |-> timers,
     log |-> <<>>, delivered |-> NoMessage, written |-> "<none>"]

Set(s) ==
    /\ isConnected' = s.isConnected
    /\ isConnecting' = s.isConnecting
    /\ error' = s.error
    /\ lastMessage' = s.lastMessage
    /\ connectionStatus' = s.connectionStatus
    /\ ws' = s.ws
    /\ reconnectTimeoutRef' = s.reconnectTimeoutRef
    /\ reconnectCountRef' = s.reconnectCountRef
    /\ isMountedRef' = s.isMountedRef
    /\ transports' = s.transports
    /\ timers' = s.timers
    /\ log' = s.log
    /\ delivered' = s.delivered
    /\ written' = s.written
    /\ UNCHANGED viewerVars

(* --------------------------- the transport ----------------------------- *)
\* new WebSocket(url): closeCode 0 until close() takes effect; released is
\* history: disconnect() has dropped the hook's reference to it.
NewTransport ==
    [readyState |-> CONNECTING, opened |-> FALSE, closeCode |-> 0,
     released |-> FALSE]

\* A transport whose connection is closed: readyState CLOSED.  It reports
\* nothing more and close() has no effect on it, so only its readyState is
\* kept.
ClosedTransport ==
    [readyState |-> CLOSED, opened |-> FALSE, closeCode |-> 0,
     released |-> FALSE]

\* WebSocket.close(code): nothing when already CLOSING or CLOSED, otherwise
\* CLOSING at once; the close event comes later.
WsClose(tr, code) ==
    IF tr.readyState \in {CLOSING, CLOSED} THEN tr
    ELSE [tr EXCEPT !.readyState = CLOSING, !.closeCode = code]

(* ------------------------------ the hook ------------------------------- *)
\* disconnect() drops the reference to a transport it has called close() on.
Release(tr) ==
    IF tr.readyState = CLOSED THEN tr ELSE [tr EXCEPT !.released = TRUE]

\* The guard of connect(): no url, or ws.current is CONNECTING or OPEN.
AlreadyConnecting_OpenOnly(s, u) ==
    \/ u = NoUrl
    \/ (s.ws # 0 /\ s.transports[s.ws].readyState = OPEN)

AlreadyConnecting(s, u) ==
    \/ u = NoUrl
    \/ (s.ws # 0 /\ s.transports[s.ws].readyState \in {CONNECTING, OPEN})

\* connect() that gives the retry budget back.
connect_ResetsCount(s, u) ==
    IF AlreadyConnecting(s, u)
    THEN s
    ELSE LET s1 == [s EXCEPT !.isConnecting = TRUE,
                             !.connectionStatus = "connecting",
                             !.error = NoError,
                             !.reconnectCountRef = 0]
         IN  IF u = BadUrl
             THEN IF ~s1.isMountedRef THEN s1
                  ELSE [s1 EXCEPT !.error = "Failed to create WebSocket connection",
                                  !.connectionStatus = "error",
                                  !.isConnecting = FALSE]
             ELSE [s1 EXCEPT !.transports = Append(@, NewTransport),
                             !.ws = Len(s.transports) + 1,
                             !.log = Append(@, "new WebSocket")]

\* connect(), with u the url of the render that created the callback.
connect(s, u) ==
    IF AlreadyConnecting(s, u)
    THEN s
    ELSE LET s1 == [s EXCEPT !.isConnecting = TRUE,
                             !.connectionStatus = "connecting",
                             !.error = NoError]
         IN  IF u = BadUrl
             THEN \* the constructor throws: the catch block
                  IF ~s1.isMountedRef THEN s1
                  ELSE [s1 EXCEPT !.error = "Failed to create WebSocket connection",
                                  !.connectionStatus = "error",
                                  !.isConnecting = FALSE]
             ELSE [s1 EXCEPT !.transports = Append(@, NewTransport),
                             !.ws = Len(s.transports) + 1,
                             !.log = Append(@, "new WebSocket")]

\* onopen that forgets to clear isConnecting.
onopen_KeepConnecting(s) ==
    IF ~s.isMountedRef THEN s
    ELSE [s EXCEPT !.isConnected = TRUE,
                   !.connectionStatus = "connected",
                   !.error = NoError,
                   !.reconnectCountRef = 0,
                   !.log = Append(@, "onOpen")]

\* onopen with the reset of the retry counter left out.
onopen_KeepCount(s) ==
    IF ~s.isMountedRef THEN s
    ELSE [s EXCEPT !.isConnected = TRUE,
                   !.isConnecting = FALSE,
                   !.connectionStatus = "connected",
                   !.error = NoError,
                   !.log = Append(@, "onOpen")]

\* ws.current.onopen
onopen(s) ==
    IF ~s.isMountedRef THEN s
    ELSE [s EXCEPT !.isConnected = TRUE,
                   !.isConnecting = FALSE,
                   !.connectionStatus = "connected",
                   !.error = NoError,
                   !.reconnectCountRef = 0,
                   !.log = Append(@, "onOpen")]

\* ws.current.onmessage, for the frame text raw
onmessage(s, raw) ==
    IF ~s.isMountedRef THEN s
    ELSE LET b == BuildMessage(raw)
         IN  IF b.threw THEN s
             ELSE [s EXCEPT !.lastMessage = b.msg,
                            !.delivered = b.msg,
                            !.log = Append(@, "onMessage")]

\* ws.current.onerror
onerror(s) ==
    IF ~s.isMountedRef THEN s
    ELSE [s EXCEPT !.error = "WebSocket connection error",
                   !.connectionStatus = "error",
                   !.isConnecting = FALSE,
                   !.log = Append(@, "onError")]

\* onclose that reports 'disconnected' once the retry budget is used up.
onclose_DisconnectedWhenExhausted(s, t, wasClean) ==
    IF ~s.isMountedRef THEN s
    ELSE LET s1 == [s EXCEPT !.isConnected = FALSE, !.isConnecting = FALSE]
             s2 == IF wasClean \/ s1.reconnectCountRef >= reconnectAttempts
                   THEN [s1 EXCEPT !.connectionStatus = "disconnected"]
                   ELSE [s1 EXCEPT !.connectionStatus = "error",
                                   !.error = "Connection lost unexpectedly"]
             s3 == [s2 EXCEPT !.log = Append(@, IF wasClean THEN "onClose(clean)"
                                                ELSE "onClose(abnormal)")]
         IN  IF ~wasClean /\ s3.reconnectCountRef < reconnectAttempts
             THEN [s3 EXCEPT !.reconnectCountRef = @ + 1,
                             !.timers = @ \cup {t},
                             !.reconnectTimeoutRef = t,
                             !.log = Append(@, "setTimeout")]
             ELSE s3

\* onclose that schedules a retry after a clean close as well.
onclose_RetryClean(s, t, wasClean) ==
    IF ~s.isMountedRef THEN s
    ELSE LET s1 == [s EXCEPT !.isConnected = FALSE, !.isConnecting = FALSE]
             s2 == IF wasClean
                   THEN [s1 EXCEPT !.connectionStatus = "disconnected"]
                   ELSE [s1 EXCEPT !.connectionStatus = "error",
                                   !.error = "Connection lost unexpectedly"]
             s3 == [s2 EXCEPT !.log = Append(@, IF wasClean THEN "onClose(clean)"
                                                ELSE "onClose(abnormal)")]
         IN  IF s3.reconnectCountRef < reconnectAttempts
             THEN [s3 EXCEPT !.reconnectCountRef = @ + 1,
                             !.timers = @ \cup {t},
                             !.reconnectTimeoutRef = t,
                             !.log = Append(@, "setTimeout")]
             ELSE s3

\* onclose that schedules a retry after every abnormal close.
onclose_NoBudgetTest(s, t, wasClean) ==
    IF ~s.isMountedRef THEN s
    ELSE LET s1 == [s EXCEPT !.isConnected = FALSE, !.isConnecting = FALSE]
             s2 == IF wasClean
                   THEN [s1 EXCEPT !.connectionStatus = "disconnected"]
                   ELSE [s1 EXCEPT !.connectionStatus = "error",
                                   !.error = "Connection lost unexpectedly"]
             s3 == [s2 EXCEPT !.log = Append(@, IF wasClean THEN "onClose(clean)"
                                                ELSE "onClose(abnormal)")]
         IN  IF ~wasClean
             THEN [s3 EXCEPT !.reconnectCountRef = @ + 1,
                             !.timers = @ \cup {t},
                             !.reconnectTimeoutRef = t,
                             !.log = Append(@, "setTimeout")]
             ELSE s3

\* onclose whose budget test is <= instead of <.
onclose_RetryInclusive(s, t, wasClean) ==
    IF ~s.isMountedRef THEN s
    ELSE LET s1 == [s EXCEPT !.isConnected = FALSE, !.isConnecting = FALSE]
             s2 == IF wasClean
                   THEN [s1 EXCEPT !.connectionStatus = "disconnected"]
                   ELSE [s1 EXCEPT !.connectionStatus = "error",
                                   !.error = "Connection lost unexpectedly"]
             s3 == [s2 EXCEPT !.log = Append(@, IF wasClean THEN "onClose(clean)"
                                                ELSE "onClose(abnormal)")]
         IN  IF ~wasClean /\ s3.reconnectCountRef <= reconnectAttempts
             THEN [s3 EXCEPT !.reconnectCountRef = @ + 1,
                             !.timers = @ \cup {t},
                             !.reconnectTimeoutRef = t,
                             !.log = Append(@, "setTimeout")]
             ELSE s3

\* ws.current.onclose of transport t; the retry timer takes the id t, since
\* a transport's close event is handled once.
onclose(s, t, wasClean) ==
    IF ~s.isMountedRef THEN s
    ELSE LET s1 == [s EXCEPT !.isConnected = FALSE, !.isConnecting = FALSE]
             s2 == IF wasClean
                   THEN [s1 EXCEPT !.connectionStatus = "disconnected"]
                   ELSE [s1 EXCEPT !.connectionStatus = "error",
                                   !.error = "Connection lost unexpectedly"]
             s3 == [s2 EXCEPT !.log = Append(@, IF wasClean THEN "onClose(clean)"
                                                ELSE "onClose(abnormal)")]
         IN  IF ~wasClean /\ s3.reconnectCountRef < reconnectAttempts
             THEN [s3 EXCEPT !.reconnectCountRef = @ + 1,
                             !.timers = @ \cup {t},
                             !.reconnectTimeoutRef = t,
                             !.log = Append(@, "setTimeout")]
             ELSE s3

\* disconnect() with the reset of the retry counter left out.
disconnect_KeepCount(s) ==
    LET s1 == IF s.reconnectTimeoutRef # 0
              THEN [s EXCEPT !.timers = @ \ {s.reconnectTimeoutRef},
                             !.reconnectTimeoutRef = 0,
                             !.log = Append(@, "clearTimeout")]
              ELSE s
        s2 == IF s1.ws # 0
              THEN [s1 EXCEPT !.transports[s1.ws] =
                                      Release(WsClose(@, 1000)),
                              !.ws = 0,
                              !.log = Append(@, "close(1000)")]
              ELSE s1
    IN  [s2 EXCEPT !.isConnected = FALSE,
                   !.isConnecting = FALSE,
                   !.connectionStatus = "disconnected",
                   !.error = NoError]

\* disconnect() that closes ws.current but keeps the reference to it.
disconnect_KeepRef(s) ==
    LET s1 == IF s.reconnectTimeoutRef # 0
              THEN [s EXCEPT !.timers = @ \ {s.reconnectTimeoutRef},
                             !.reconnectTimeoutRef = 0,
                             !.log = Append(@, "clearTimeout")]
              ELSE s
        s2 == IF s1.ws # 0
              THEN [s1 EXCEPT !.transports[s1.ws] =
                                      Release(WsClose(@, 1000)),
                              !.log = Append(@, "close(1000)")]
              ELSE s1
    IN  [s2 EXCEPT !.isConnected = FALSE,
                   !.isConnecting = FALSE,
                   !.connectionStatus = "disconnected",
                   !.error = NoError,
                   !.reconnectCountRef = 0]

\* disconnect()
disconnect(s) ==
    LET s1 == IF s.reconnectTimeoutRef # 0
              THEN [s EXCEPT !.timers = @ \ {s.reconnectTimeoutRef},
                             !.reconnectTimeoutRef = 0,
                             !.log = Append(@, "clearTimeout")]
              ELSE s
        s2 == IF s1.ws # 0
              THEN [s1 EXCEPT !.transports[s1.ws] =
                                      Release(WsClose(@, 1000)),
                              !.ws = 0,
                              !.log = Append(@, "close(1000)")]
              ELSE s1
    IN  [s2 EXCEPT !.isConnected = FALSE,
                   !.isConnecting = FALSE,
                   !.connectionStatus = "disconnected",
                   !.error = NoError,
                   !.reconnectCountRef = 0]

\* sendMessage(message) with a failed send also reported as the status.
sendMessage_SetsStatus(s, message) ==
    IF s.ws # 0 /\ s.transports[s.ws].readyState = OPEN
    THEN IF message = "<circular>"
         THEN [s EXCEPT !.error = "Failed to send message"]
         ELSE [s EXCEPT !.written =
                            IF message = "ping" THEN message
                            ELSE "{\"type\":\"ping\"}",
                        !.log = Append(@, "send")]
    ELSE [s EXCEPT !.error = "Cannot send message: not connected",
                   !.connectionStatus = "error"]

\* sendMessage(message) that serialises strings as well.
sendMessage_AlwaysStringify(s, message) ==
    IF s.ws # 0 /\ s.transports[s.ws].readyState = OPEN
    THEN IF message = "<circular>"
         THEN [s EXCEPT !.error = "Failed to send message"]
         ELSE [s EXCEPT !.written =
                            IF message = "ping" THEN "\"ping\""
                            ELSE "{\"type\":\"ping\"}",
                        !.log = Append(@, "send")]
    ELSE [s EXCEPT !.error = "Cannot send message: not connected"]

\* sendMessage(message)
sendMessage(s, message) ==
    IF s.ws # 0 /\ s.transports[s.ws].readyState = OPEN
    THEN IF message = "<circular>"
         THEN \* JSON.stringify throws
              [s EXCEPT !.error = "Failed to send message"]
         ELSE [s EXCEPT !.written =
                            IF message = "ping" THEN message
                            ELSE "{\"type\":\"ping\"}",
                        !.log = Append(@, "send")]
    ELSE [s EXCEPT !.error = "Cannot send message: not connected"]

\* The retry callback with the mounted test inverted.
retry_InvertedMounted(s, u) == IF s.isMountedRef THEN s ELSE connect(s, u)

\* The callback of the retry timer.
retry(s, u) == IF s.isMountedRef THEN connect(s, u) ELSE s

\* The auto-connect effect without the test of autoConnect.
autoConnectEffect_IgnoresAutoConnect(s, u, a) ==
    IF u # NoUrl THEN connect(s, u) ELSE s

\* The body of the auto-connect effect, and its cleanup.
autoConnectEffect(s, u, a) == IF a /\ u # NoUrl THEN connect(s, u) ELSE s

autoConnectCleanup(s) == disconnect([s EXCEPT !.isMountedRef = FALSE])

\* The cleanup of the second effect, which runs at unmount only.
unmountCleanup(s) ==
    LET s1 == [s EXCEPT !.isMountedRef = FALSE]
        s2 == IF s1.reconnectTimeoutRef # 0
              THEN [s1 EXCEPT !.timers = @ \ {s1.reconnectTimeoutRef},
                              !.log = Append(@, "clearTimeout")]
              ELSE s1
    IN  IF s2.ws # 0
        THEN [s2 EXCEPT !.transports[s2.ws] = WsClose(@, 1005),
                        !.log = Append(@, "close()")]
        ELSE s2

(* ------------------------------ actions -------------------------------- *)
\* The state after the first render: useState and useRef initial values, for
\* any url and autoConnect the consumer may pass.
Init ==
    /\ isConnected = FALSE
    /\ isConnecting = FALSE
    /\ error = NoError
    /\ lastMessage = NoMessage
    /\ connectionStatus = "disconnected"
    /\ ws = 0
    /\ reconnectTimeoutRef = 0
    /\ reconnectCountRef = 0
    /\ isMountedRef = TRUE
    /\ transports = <<>>
    /\ timers = {}
    /\ log = <<>>
    /\ delivered = NoMessage
    /\ written = "<none>"
    /\ url \in Urls
    /\ autoConnect \in BOOLEAN
    /\ reconnectAttempts \in 0..MaxAttempts
    /\ phase = "init"
    /\ afterDisconnect = FALSE
    /\ exhausted = FALSE
    /\ lvPhase = "init"
    /\ websocketUrl = "undefined"
    /\ isStreaming = FALSE
    /\ logs = <<>>
    /\ searchQuery = ""
    /\ levelFilter = "all"
    /\ filteredLogs = <<>>
    /\ wsConnection = 0
    /\ lvConnectionStatus = "disconnected"
    /\ sockets = <<>>
    /\ effectWs = 0
    /\ streamed = <<>>

CanCreate == Len(transports) < MaxTransports

\* The effects run after the first render.
Mount ==
    /\ phase = "init"
    /\ Set(autoConnectEffect(Cur, url, autoConnect))
    /\ phase' = "mounted"
    /\ afterDisconnect' = FALSE
    /\ exhausted' = FALSE
    /\ UNCHANGED <<url, autoConnect, reconnectAttempts>>

\* The consumer calls connect().
Connect ==
    /\ phase = "mounted"
    /\ CanCreate
    /\ Set(connect(Cur, url))
    /\ afterDisconnect' = FALSE
    /\ exhausted' = FALSE
    /\ UNCHANGED <<url, autoConnect, reconnectAttempts, phase>>

\* The consumer calls disconnect().
Disconnect ==
    /\ phase = "mounted"
    /\ Set(disconnect(Cur))
    /\ afterDisconnect' = TRUE
    /\ exhausted' = FALSE
    /\ UNCHANGED <<url, autoConnect, reconnectAttempts, phase>>

\* The consumer calls sendMessage(message).
Send(message) ==
    /\ phase = "mounted"
    /\ Set(sendMessage(Cur, message))
    /\ UNCHANGED <<url, autoConnect, reconnectAttempts, phase, afterDisconnect, exhausted>>

SendMessage == \E message \in Payloads : Send(message)

\* A render that changes url, autoConnect or the identity of connect (an
\* inline callback does on every render): the auto-connect effect is cleaned
\* up and run again.
Rerender ==
    /\ phase = "mounted"
    /\ CanCreate
    /\ \E u \in Urls, a \in BOOLEAN :
          /\ Set(autoConnectEffect(autoConnectCleanup(Cur), u, a))
          /\ url' = u
          /\ autoConnect' = a
          /\ afterDisconnect' = ~(a /\ u # NoUrl)
    /\ exhausted' = FALSE
    /\ UNCHANGED <<reconnectAttempts, phase>>

\* The component unmounts: both cleanups run, in the order of the effects.
Unmount ==
    /\ phase = "mounted"
    /\ Set(unmountCleanup(autoConnectCleanup(Cur)))
    /\ phase' = "unmounted"
    /\ afterDisconnect' = TRUE
    /\ exhausted' = FALSE
    /\ UNCHANGED <<url, autoConnect, reconnectAttempts>>

Live(t) == transports[t].readyState # CLOSED

\* Transport t reports that it is open: the open event.
OpenEvent(t) ==
    /\ transports[t].readyState = CONNECTING
    /\ Set(onopen([Cur EXCEPT !.transports[t].readyState = OPEN,
                              !.transports[t].opened = TRUE]))
    /\ exhausted' = (exhausted /\ ~isMountedRef)
    /\ UNCHANGED <<url, autoConnect, reconnectAttempts, phase, afterDisconnect>>

TransportOpen == \E t \in DOMAIN transports : OpenEvent(t)

\* Transport t delivers the text frame raw: the message event.
Deliver(t, raw) ==
    /\ transports[t].readyState = OPEN
    /\ Set(onmessage(Cur, raw))
    /\ UNCHANGED <<url, autoConnect, reconnectAttempts, phase,
                   afterDisconnect, exhausted>>

\* A transport delivers a frame of the log stream.
TransportMessage ==
    \E t \in DOMAIN transports, raw \in StreamFrames : Deliver(t, raw)

\* A transport delivers any of the frames.
TransportFrame ==
    \E t \in DOMAIN transports, raw \in Frames : Deliver(t, raw)

\* The connection of transport t fails: the error event and then the close
\* event, in one task.
FailEvent(t) ==
    /\ Live(t)
    /\ Set(onclose(onerror([Cur EXCEPT !.transports[t] = ClosedTransport]),
                   t, FALSE))
    /\ exhausted' = (exhausted \/
                        (isMountedRef /\ reconnectCountRef >= reconnectAttempts))
    /\ UNCHANGED <<url, autoConnect, reconnectAttempts, phase, afterDisconnect>>

TransportFail == \E t \in DOMAIN transports : FailEvent(t)

\* Transport t closes without an error event; a clean close needs a
\* connection that had been established.
CloseEvent(t, wasClean) ==
    /\ Live(t)
    /\ wasClean => transports[t].opened
    /\ Set(onclose([Cur EXCEPT !.transports[t] = ClosedTransport],
                   t, wasClean))
    /\ exhausted' = (exhausted \/
                        (~wasClean /\ isMountedRef
                            /\ reconnectCountRef >= reconnectAttempts))
    /\ UNCHANGED <<url, autoConnect, reconnectAttempts, phase, afterDisconnect>>

TransportClose ==
    \E t \in DOMAIN transports, wasClean \in BOOLEAN : CloseEvent(t, wasClean)

\* The pending retry timer id fires.  Its callback belongs to the render
\* that scheduled it; a later render of another url has cleared
\* isMountedRef, so the url it connects to is the current one whenever it
\* connects at all.
TimerFires(id) ==
    /\ id \in timers
    /\ CanCreate
    /\ Set(retry([Cur EXCEPT !.timers = @ \ {id}], url))
    /\ UNCHANGED <<url, autoConnect, reconnectAttempts, phase,
                   afterDisconnect, exhausted>>

RetryTimer == \E id \in timers : TimerFires(id)

Next ==
    \/ Mount
    \/ Connect
    \/ Disconnect
    \/ SendMessage
    \/ Rerender
    \/ Unmount
    \/ TransportOpen
    \/ TransportMessage
    \/ TransportFail
    \/ TransportClose
    \/ RetryTimer

Spec == Init /\ [][Next]_vars

\* The specification of the message claims: one connection's stream, fed
\* with every frame of Frames.
NextMsg ==
    \/ Mount
    \/ Connect
    \/ Disconnect
    \/ Unmount
    \/ TransportOpen
    \/ TransportFrame
    \/ TransportClose
    \/ RetryTimer

SpecMsg == Init /\ [][NextMsg]_vars

\* The hook while it stays mounted with the same props and the consumer never
\* calls disconnect(): only established transports are lost, a transport that
\* is connecting opens, and a pending retry timer fires.
EstablishedFail ==
    \E t \in DOMAIN transports :
        transports[t].readyState = OPEN /\ FailEvent(t)

EstablishedClose ==
    \E t \in DOMAIN transports, wasClean \in BOOLEAN :
        transports[t].readyState = OPEN /\ CloseEvent(t, wasClean)

NextRetry ==
    \/ Mount
    \/ Connect
    \/ TransportOpen
    \/ TransportMessage
    \/ EstablishedFail
    \/ EstablishedClose
    \/ RetryTimer

SpecRetry ==
    Init /\ [][NextRetry]_vars /\ WF_vars(RetryTimer) /\ WF_vars(TransportOpen)

\* The hook mounted once and left alone: the consumer calls neither connect()
\* nor disconnect() and only sends; transports open, deliver, and are lost
\* once established; retry timers fire.
NextAuto ==
    \/ Mount
    \/ SendMessage
    \/ TransportOpen
    \/ TransportMessage
    \/ EstablishedFail
    \/ EstablishedClose
    \/ RetryTimer

SpecAuto == Init /\ [][NextAuto]_vars

(* ---------------------------- the LogViewer ---------------------------- *)
\* Values of the props and of the state the user edits.
ViewerUrls == {"undefined", "ws://host/logs/a", "ws://host/logs/b"}

LogProps == {<<>>, <<"[error] boot failed">>,
             <<"[error] boot failed", "info: ready">>}

Queries == {"", "BOOT"}

Levels == {"all", "error"}

\* Frames the log stream may deliver: plain text, a log message, another
\* kind of message.
ViewerFrames == {"connection reset",
                 "{\"type\":\"log\",\"message\":\"[warn] disk\"}",
                 "{\"type\":\"status\"}"}

\* parseLogEntry(log).level: the level named in the line, 'info' otherwise.
LineLevel(line) ==
    CASE line = "[error] boot failed" -> "error"
      [] line = "[warn] disk" -> "warn"
      [] OTHER -> "info"

\* log.toLowerCase().includes(searchQuery.toLowerCase())
Includes(line, query) ==
    \/ query = ""
    \/ (query = "BOOT" /\ line = "[error] boot failed")

\* The body of the filter effect: the lines of the logs prop that pass the
\* search and the level filter.
Filtered(l, query, level) ==
    LET bySearch == IF query # ""
                    THEN SelectSeq(l, LAMBDA x : Includes(x, query))
                    ELSE l
    IN  IF level # "all"
        THEN SelectSeq(bySearch, LAMBDA x : LineLevel(x) = level)
        ELSE bySearch

\* ws.onmessage: the line a frame appends, or "" when it appends none.
StreamLine(frame) ==
    CASE frame = "connection reset" -> frame       \* JSON.parse throws
      [] frame = "{\"type\":\"log\",\"message\":\"[warn] disk\"}" -> "[warn] disk"
      [] OTHER -> ""

\* ws.close() in the effect cleanup, on the socket of that effect run.
Cleaned(socks, w) ==
    IF w # 0 /\ socks[w] \in {CONNECTING, OPEN}
    THEN [socks EXCEPT ![w] = CLOSING]
    ELSE socks

\* The body of the WebSocket effect for the props u and st.
Streams(u, st) == u # "undefined" /\ st

ViewerMount ==
    /\ lvPhase = "init"
    /\ \E u \in ViewerUrls, st \in BOOLEAN, l \in LogProps :
          /\ websocketUrl' = u
          /\ isStreaming' = st
          /\ logs' = l
          /\ sockets' = IF Streams(u, st) THEN <<CONNECTING>> ELSE <<>>
          /\ effectWs' = IF Streams(u, st) THEN 1 ELSE 0
          /\ filteredLogs' = Filtered(l, searchQuery, levelFilter)
    /\ lvPhase' = "mounted"
    /\ UNCHANGED <<searchQuery, levelFilter, wsConnection,
                   lvConnectionStatus, streamed>>
    /\ UNCHANGED vars

\* A render with another websocketUrl or isStreaming: the cleanup of the
\* WebSocket effect runs, then its body.
StreamingChange ==
    /\ lvPhase = "mounted"
    /\ Len(sockets) < MaxSockets
    /\ \E u \in ViewerUrls, st \in BOOLEAN :
          /\ <<u, st>> # <<websocketUrl, isStreaming>>
          /\ websocketUrl' = u
          /\ isStreaming' = st
          /\ sockets' = IF Streams(u, st)
                        THEN Append(Cleaned(sockets, effectWs), CONNECTING)
                        ELSE Cleaned(sockets, effectWs)
          /\ effectWs' = IF Streams(u, st) THEN Len(sockets) + 1 ELSE 0
    /\ UNCHANGED <<lvPhase, logs, searchQuery, levelFilter, filteredLogs,
                   wsConnection, lvConnectionStatus, streamed>>
    /\ UNCHANGED vars

\* The parent passes other logs, or the user edits the search or the level:
\* the filter effect runs.
LogsChange ==
    /\ lvPhase = "mounted"
    /\ \E l \in LogProps \ {logs} :
          /\ logs' = l
          /\ filteredLogs' = Filtered(l, searchQuery, levelFilter)
    /\ UNCHANGED <<lvPhase, websocketUrl, isStreaming, searchQuery, levelFilter,
                   wsConnection, lvConnectionStatus, sockets, effectWs, streamed>>
    /\ UNCHANGED vars

SearchChange ==
    /\ lvPhase = "mounted"
    /\ \E q \in Queries \ {searchQuery} :
          /\ searchQuery' = q
          /\ filteredLogs' = Filtered(logs, q, levelFilter)
    /\ UNCHANGED <<lvPhase, websocketUrl, isStreaming, logs, levelFilter,
                   wsConnection, lvConnectionStatus, sockets, effectWs, streamed>>
    /\ UNCHANGED vars

LevelChange ==
    /\ lvPhase = "mounted"
    /\ \E f \in Levels \ {levelFilter} :
          /\ levelFilter' = f
          /\ filteredLogs' = Filtered(logs, searchQuery, f)
    /\ UNCHANGED <<lvPhase, websocketUrl, isStreaming, logs, searchQuery,
                   wsConnection, lvConnectionStatus, sockets, effectWs, streamed>>
    /\ UNCHANGED vars


\* Socket t reports that it is open: ws.onopen.  After the unmount React
\* drops the state updates of the handlers.
SocketOpen(t) ==
    /\ sockets[t] = CONNECTING
    /\ sockets' = [sockets EXCEPT ![t] = OPEN]
    /\ IF lvPhase = "mounted"
       THEN lvConnectionStatus' = "connected" /\ wsConnection' = t
       ELSE UNCHANGED <<lvConnectionStatus, wsConnection>>
    /\ UNCHANGED <<lvPhase, websocketUrl, isStreaming, logs, searchQuery,
                   levelFilter, filteredLogs, effectWs, streamed>>
    /\ UNCHANGED vars

ViewerSocketOpen == \E t \in DOMAIN sockets : SocketOpen(t)

\* Socket t delivers a frame: ws.onmessage.
SocketMessage(t, frame) ==
    /\ sockets[t] = OPEN
    /\ lvPhase = "mounted"
    /\ Len(streamed) < MaxLines
    /\ IF StreamLine(frame) # ""
       THEN /\ filteredLogs' = Append(filteredLogs, StreamLine(frame))
            /\ streamed' = Append(streamed, StreamLine(frame))
       ELSE UNCHANGED <<filteredLogs, streamed>>
    /\ UNCHANGED <<lvPhase, websocketUrl, isStreaming, logs, searchQuery,
                   levelFilter, wsConnection, lvConnectionStatus, sockets,
                   effectWs>>
    /\ UNCHANGED vars

ViewerSocketMessage ==
    \E t \in DOMAIN sockets, frame \in ViewerFrames : SocketMessage(t, frame)

\* The connection of socket t ends, with or without an error: ws.onerror and
\* ws.onclose, which write the same status.
SocketClose(t) ==
    /\ sockets[t] # CLOSED
    /\ sockets' = [sockets EXCEPT ![t] = CLOSED]
    /\ IF lvPhase = "mounted"
       THEN lvConnectionStatus' = "disconnected" /\ wsConnection' = 0
       ELSE UNCHANGED <<lvConnectionStatus, wsConnection>>
    /\ UNCHANGED <<lvPhase, websocketUrl, isStreaming, logs, searchQuery,
                   levelFilter, filteredLogs, effectWs, streamed>>
    /\ UNCHANGED vars

ViewerSocketClose == \E t \in DOMAIN sockets : SocketClose(t)

\* The viewer unmounts: the cleanup of the WebSocket effect runs.
ViewerUnmount ==
    /\ lvPhase = "mounted"
    /\ sockets' = Cleaned(sockets, effectWs)
    /\ effectWs' = 0
    /\ lvPhase' = "unmounted"
    /\ UNCHANGED <<websocketUrl, isStreaming, logs, searchQuery, levelFilter,
                   filteredLogs, wsConnection, lvConnectionStatus, streamed>>
    /\ UNCHANGED vars

\* One LogViewer, next to a hook that is never mounted.
InitViewer == Init /\ url = NoUrl /\ ~autoConnect /\ reconnectAttempts = 0

NextViewer ==
    \/ ViewerMount
    \/ StreamingChange
    \/ LogsChange
    \/ SearchChange
    \/ LevelChange
    \/ ViewerSocketOpen
    \/ ViewerSocketMessage
    \/ ViewerSocketClose
    \/ ViewerUnmount

SpecViewer == InitViewer /\ [][NextViewer]_viewerVars

TypeOK ==
    /\ isConnected \in BOOLEAN
    /\ isConnecting \in BOOLEAN
    /\ connectionStatus \in {"disconnected", "connecting", "connected", "error"}
    /\ ws \in 0..Len(transports)
    /\ reconnectTimeoutRef \in 0..Len(transports)
    /\ reconnectCountRef \in Nat
    /\ reconnectAttempts \in 0..MaxAttempts
    /\ timers \subseteq DOMAIN transports
    /\ Len(transports) <= MaxTransports

(* ------------------------------ claims --------------------------------- *)
LiveTransports ==
    {t \in DOMAIN transports : transports[t].readyState \in {CONNECTING, OPEN}}

\* C1: at most one transport of the connection is CONNECTING or OPEN, and it
\* is the one ws.current refers to; a connect() issued while it is
\* CONNECTING or OPEN therefore creates no second one.
C1_OneLiveTransport ==
    /\ Cardinality(LiveTransports) <= 1
    /\ \A t \in LiveTransports : t = ws

\* A second transport is open while the first, closed by disconnect(), is
\* still closing.
C1_Witness ==
    /\ Len(transports) >= 2
    /\ transports[1].readyState = CLOSING
    /\ ws = 2
    /\ transports[2].readyState = OPEN

\* C2: once disconnect() has been called, and until connect() is called
\* again, the connection is never Connecting and has created no transport.
C2_DisconnectWins ==
    afterDisconnect => (connectionStatus # "connecting" /\ ws = 0)

\* C3: the retry counter never exceeds reconnectAttempts; an abnormal close
\* that finds the counter at reconnectAttempts schedules no retry; and after
\* such a close, until connect() is called (or an open or disconnect()
\* resets the counter), no transport is created and the connection does not
\* become Connecting.
C3_BoundedRetry ==
    [][ /\ reconnectCountRef' <= reconnectAttempts
        /\ (exhausted' /\ ~exhausted) => (timers' = timers)
        /\ (exhausted /\ exhausted') =>
              /\ Len(transports') = Len(transports)
              /\ (connectionStatus' = "connecting" =>
                     connectionStatus = "connecting") ]_vars

\* C4: while the hook is mounted, an event of a transport that disconnect()
\* has released invokes no callback and leaves the reported state and the
\* retry counter alone.
C4_ReleasedTransportSilent ==
    [][ \A t \in DOMAIN transports :
          ( /\ transports[t].released
            /\ transports'[t].readyState # transports[t].readyState
            /\ isMountedRef )
          => /\ log' = <<>>
             /\ UNCHANGED <<connectionStatus, isConnected, isConnecting,
                            error, lastMessage, reconnectCountRef>> ]_vars

\* C5: every frame received while mounted, whatever its content, invokes
\* onMessage exactly once, and lastMessage is the message handed to it.
C5_OnePerFrame ==
    [][ \A t \in DOMAIN transports, raw \in Frames :
          (Deliver(t, raw) /\ isMountedRef)
          => /\ log' = <<"onMessage">>
             /\ delivered' # NoMessage
             /\ lastMessage' = delivered' ]_vars

\* C6: a frame that is not JSON is delivered as exactly one message, with
\* type 'message' and the raw frame text as data.
C6_RawTextWrapped ==
    [][ \A t \in DOMAIN transports, raw \in Frames :
          (Deliver(t, raw) /\ isMountedRef /\ ~JSONParse(raw).ok)
          => /\ log' = <<"onMessage">>
             /\ delivered'.type = JSStr("message")
             /\ delivered'.data = JSStr(raw) ]_vars

\* C7: a frame that parses as an object with type, data and timestamp is
\* delivered with exactly those three values.
C7_FieldsVerbatim ==
    [][ \A t \in DOMAIN transports, raw \in Frames :
          LET p == JSONParse(raw)
          IN  ( /\ Deliver(t, raw)
                /\ isMountedRef
                /\ p.ok
                /\ p.v.k = "obj"
                /\ JSUndefined \notin {p.type, p.data, p.timestamp} )
              => delivered' = WebSocketMessage(p.type, p.data, p.timestamp) ]_vars

\* C8: sendMessage() while the status is 'disconnected', 'connecting' or
\* 'error' writes nothing to a transport and reports the not-connected error.
C8_SendNeedsConnected ==
    [][ (SendMessage /\ connectionStatus \in {"disconnected", "connecting", "error"})
        => /\ written' = "<none>"
           /\ error' = "Cannot send message: not connected" ]_vars

\* C9: a sendMessage() that fails as not connected changes the error field
\* and nothing else of the connection.
C9_FailedSendFrame ==
    [][ (SendMessage /\ error' = "Cannot send message: not connected")
        => UNCHANGED <<connectionStatus, isConnected, isConnecting,
                       lastMessage, reconnectCountRef, reconnectTimeoutRef,
                       timers, ws, transports>> ]_vars

\* A failed send has just been reported while a retry timer is pending.
C9_Witness ==
    /\ error = "Cannot send message: not connected"
    /\ log = <<>>
    /\ connectionStatus = "error"
    /\ timers # {}
    /\ reconnectCountRef > 0

\* C10: right after disconnect(), whatever the state before: the status is
\* 'disconnected', both flags are false, error is null, the retry counter is
\* 0, the referenced timer is no longer pending nor referenced, and the
\* transport that was current is closing or closed (with code 1000 when the
\* call closed it) and no longer referenced.
C10_AfterDisconnect ==
    [][ Disconnect
        => /\ connectionStatus' = "disconnected"
           /\ ~isConnected'
           /\ ~isConnecting'
           /\ error' = NoError
           /\ reconnectCountRef' = 0
           /\ reconnectTimeoutRef' = 0
           /\ reconnectTimeoutRef \notin timers'
           /\ ws' = 0
           /\ ws # 0 =>
                 /\ transports'[ws].readyState \in {CLOSING, CLOSED}
                 /\ transports[ws].readyState \in {CONNECTING, OPEN} =>
                       transports'[ws].closeCode = 1000 ]_vars

\* disconnect() has just cleared the referenced retry timer and closed, with
\* code 1000, the transport that was current.
C10_Witness ==
    /\ phase = "mounted"
    /\ isMountedRef
    /\ afterDisconnect
    /\ log = <<"clearTimeout", "close(1000)">>
    /\ \E t \in DOMAIN transports :
          transports[t].released /\ transports[t].closeCode = 1000

\* The consumer callbacks the last step invoked.
Callbacks == {"onOpen", "onMessage", "onError", "onClose(clean)", "onClose(abnormal)"}

Fired == {log[i] : i \in DOMAIN log} \cap Callbacks

\* C11 as stated: disconnect() called when the connection is already
\* Disconnected closes no transport, fires no callback and changes no state.
C11_NoChangeWhenDisconnected ==
    [][ (Disconnect /\ connectionStatus = "disconnected")
        => /\ Fired' = {}
           /\ UNCHANGED <<connectionStatus, isConnected, isConnecting, error,
                          lastMessage, reconnectCountRef, transports, timers>> ]_vars

\* C11, amended: disconnect() never fires a callback; called again right
\* after a disconnect() it calls nothing and changes nothing; and called
\* when the status is 'disconnected' it leaves the status and both flags as
\* they are.
C11_Idempotent ==
    [][ Disconnect
        => /\ Fired' = {}
           /\ disconnect(Cur)' = Cur'
           /\ connectionStatus = "disconnected" =>
                 UNCHANGED <<connectionStatus, isConnected, isConnecting>> ]_vars

\* A second disconnect() has just run: nothing was called, and the transport
\* the first call released is still closing.
C11_Witness ==
    /\ phase = "mounted"
    /\ isMountedRef
    /\ afterDisconnect
    /\ log = <<>>
    /\ error = NoError
    /\ connectionStatus = "disconnected"
    /\ ws = 0
    /\ \E t \in DOMAIN transports :
          transports[t].released /\ transports[t].readyState = CLOSING

\* C12: handling the open event of a transport (while mounted) makes the
\* connection Connected with the retry counter at 0, whatever it was.
C12_OpenResetsCounter ==
    [][ \A t \in DOMAIN transports :
          (OpenEvent(t) /\ isMountedRef)
          => /\ connectionStatus' = "connected"
             /\ reconnectCountRef' = 0 ]_vars

\* The transport created by a retry has just opened: the counter, which the
\* retry had raised, is 0.
C12_Witness ==
    /\ log = <<"onOpen">>
    /\ connectionStatus = "connected"
    /\ reconnectCountRef = 0
    /\ reconnectTimeoutRef # 0
    /\ ws = reconnectTimeoutRef + 1

\* C13 as stated: an abnormal close leaves the status 'error' while the retry
\* counter is below reconnectAttempts and 'disconnected' once the budget is
\* exhausted.
C13_StateDependsOnBudget ==
    [][ \A t \in DOMAIN transports :
          ((CloseEvent(t, FALSE) \/ FailEvent(t)) /\ isMountedRef)
          => connectionStatus' = IF reconnectCountRef < reconnectAttempts
                                 THEN "error" ELSE "disconnected" ]_vars

\* C13, amended: an abnormal close handled while mounted always leaves the
\* status 'error' with the error 'Connection lost unexpectedly' and both
\* flags false, whether or not retry budget remains.
C13_AbnormalCloseIsError ==
    [][ \A t \in DOMAIN transports :
          ((CloseEvent(t, FALSE) \/ FailEvent(t)) /\ isMountedRef)
          => /\ connectionStatus' = "error"
             /\ error' = "Connection lost unexpectedly"
             /\ ~isConnected'
             /\ ~isConnecting' ]_vars

\* An abnormal close has just been handled with the budget used up: no retry
\* was scheduled and the status is 'error'.
C13_Witness ==
    /\ isMountedRef
    /\ reconnectAttempts > 0
    /\ reconnectCountRef = reconnectAttempts
    /\ log = <<"onClose(abnormal)">>
    /\ connectionStatus = "error"
    /\ error = "Connection lost unexpectedly"

C15_RetryScheduling ==
    [][ /\ \A t \in DOMAIN transports, wasClean \in BOOLEAN :
             ((CloseEvent(t, wasClean) \/ (~wasClean /\ FailEvent(t)))
              /\ isMountedRef)
             => IF ~wasClean /\ reconnectCountRef < reconnectAttempts
                THEN /\ t \notin timers
                     /\ timers' = timers \cup {t}
                     /\ reconnectTimeoutRef' = t
                     /\ reconnectCountRef' = reconnectCountRef + 1
                ELSE UNCHANGED <<timers, reconnectTimeoutRef, reconnectCountRef>>
        /\ \A id \in timers :
             id \notin timers'
             => TimerFires(id) \/ Disconnect \/ Rerender \/ Unmount
        /\ \A id \in timers :
             (TimerFires(id) /\ isMountedRef)
             => /\ timers' = timers \ {id}
                /\ Len(transports') <= Len(transports) + 1
                /\ (~AlreadyConnecting(Cur, url) /\ url = GoodUrl)
                   => /\ Len(transports') = Len(transports) + 1
                      /\ connectionStatus' = "connecting" ]_vars

\* The timer scheduled by an abnormal close has just fired and created the
\* next transport; the counter stands at 1.
C15_Witness ==
    /\ isMountedRef
    /\ log = <<"new WebSocket">>
    /\ reconnectCountRef = 1
    /\ timers = {}
    /\ reconnectTimeoutRef # 0
    /\ ws = reconnectTimeoutRef + 1
    /\ connectionStatus = "connecting"

\* C16: while the hook stays mounted without a re-render or a disconnect()
\* and connecting transports open, an abnormal close of the connected
\* transport that schedules a retry (status 'error') leads to the status
\* 'connecting' and from there to 'connected' with the retry counter at 0.
C16_Recovers ==
    (/\ connectionStatus = "error"
     /\ "onClose(abnormal)" \in Fired
     /\ reconnectTimeoutRef \in timers
     /\ CanCreate)
    ~> (/\ connectionStatus = "connecting"
        /\ <>(/\ connectionStatus = "connected"
              /\ isConnected
              /\ reconnectCountRef = 0))

\* The transport created by the retry timer has opened after the loss of the
\* first one.
C16_Witness ==
    /\ phase = "mounted"
    /\ connectionStatus = "connected"
    /\ isConnected
    /\ reconnectCountRef = 0
    /\ log = <<"onOpen">>
    /\ timers = {}
    /\ ws = 2
    /\ reconnectTimeoutRef = 1
    /\ transports[1] = ClosedTransport

\* C17: once the hook is unmounted no transport is connecting or open, no
\* retry timer is pending, no transport is created any more and no consumer
\* callback is invoked.
C17_QuietAfterUnmount ==
    [][ /\ phase' = "unmounted"
           => (LiveTransports' = {} /\ timers' = {})
        /\ phase = "unmounted"
           => (Len(transports') = Len(transports) /\ Fired' = {}) ]_vars

\* C18: when a transport cannot open, because the constructor throws for
\* the url or because the connecting transport reports an error, onError is
\* invoked, the status becomes 'error' with a non-null error and isConnecting
\* becomes false.
C18_OpenFailureReported ==
    [][ ( \/ (Mount /\ autoConnect /\ url = BadUrl)
          \/ (Connect /\ url = BadUrl /\ ~AlreadyConnecting(Cur, url))
          \/ \E t \in DOMAIN transports :
                /\ t = ws
                /\ transports[t].readyState = CONNECTING
                /\ isMountedRef
                /\ FailEvent(t) )
        => /\ "onError" \in Fired'
           /\ connectionStatus' = "error"
           /\ error' # NoError
           /\ ~isConnecting' ]_vars

\* C19: mounting with autoConnect and a url, or calling connect() while the
\* status is 'disconnected', creates exactly one transport and makes the
\* state Connecting (isConnecting true, error null); when the current
\* transport of the mounted hook then opens, the state becomes Connected
\* (isConnected true, isConnecting false) and onOpen alone is invoked, once.
C19_ConnectThenOpen ==
    [][ /\ ( \/ (Mount /\ autoConnect /\ url = GoodUrl)
             \/ (Connect /\ url = GoodUrl /\ connectionStatus = "disconnected") )
           => /\ Len(transports') = Len(transports) + 1
              /\ connectionStatus' = "connecting"
              /\ isConnecting'
              /\ error' = NoError
        /\ \A t \in DOMAIN transports :
              (t = ws /\ phase = "mounted" /\ OpenEvent(t))
              => /\ connectionStatus' = "connected"
                 /\ isConnected'
                 /\ ~isConnecting'
                 /\ log' = <<"onOpen">> ]_vars

\* No transport has been created and the consumer sees the values of the
\* first render, except possibly for error.
NothingCreated ==
    /\ transports = <<>>
    /\ connectionStatus = "disconnected"
    /\ ~isConnected
    /\ ~isConnecting
    /\ lastMessage = NoMessage

\* C20 as stated: no transport is created while url is null and connect() then
\* changes no state; with autoConnect false, as long as connect() has not
\* been called no transport exists and the state is the initial one, error
\* null included.
C20_InitialUntilConnect ==
    [][ /\ Len(transports') > Len(transports) => url' # NoUrl
        /\ (Connect /\ url = NoUrl)
           => UNCHANGED <<isConnected, isConnecting, error, lastMessage,
                          connectionStatus, ws, transports, timers,
                          reconnectTimeoutRef, reconnectCountRef>>
        /\ (NothingCreated /\ error = NoError
            /\ ~autoConnect /\ ~autoConnect' /\ ~Connect)
           => (NothingCreated' /\ error' = NoError) ]_vars

\* C20, amended: as above, except that before the first connect() error is
\* either null or the 'Cannot send message: not connected' of a sendMessage()
\* call.
C20_InitialButSendError ==
    [][ /\ Len(transports') > Len(transports) => url' # NoUrl
        /\ (Connect /\ url = NoUrl)
           => UNCHANGED <<isConnected, isConnecting, error, lastMessage,
                          connectionStatus, ws, transports, timers,
                          reconnectTimeoutRef, reconnectCountRef>>
        /\ (NothingCreated
            /\ error \in {NoError, "Cannot send message: not connected"}
            /\ ~autoConnect /\ ~autoConnect' /\ ~Connect)
           => /\ NothingCreated'
              /\ error' \in {NoError, "Cannot send message: not connected"} ]_vars

\* Mounted with autoConnect false and a url, connect() not yet called, and
\* sendMessage() has set its error.
C20_Witness ==
    /\ phase = "mounted"
    /\ ~autoConnect
    /\ url = GoodUrl
    /\ NothingCreated
    /\ error = "Cannot send message: not connected"
    /\ ws = 0
    /\ isMountedRef

\* The current transport is open.
CurrentOpen == ws # 0 /\ transports[ws].readyState = OPEN

\* C21 as stated: sendMessage(m) while the current transport is open writes
\* one frame to it and changes no connection state, error included.
C21_SendWritesOneFrame ==
    [][ \A m \in Payloads :
          (Send(m) /\ CurrentOpen)
          => /\ log' = <<"send">>
             /\ written' # "<none>"
             /\ UNCHANGED <<connectionStatus, isConnected, isConnecting, error,
                            lastMessage, ws, transports, timers,
                            reconnectTimeoutRef, reconnectCountRef>> ]_vars

\* C21, amended: sendMessage(m) while the current transport is open either
\* writes exactly one frame, m itself for a string and its JSON text
\* otherwise, and changes nothing else; or, when serialising or sending
\* throws, writes nothing and sets error to 'Failed to send message'.  The
\* status, the flags, the transports and the retry state never change.
C21_SendOrReport ==
    [][ \A m \in Payloads :
          (Send(m) /\ CurrentOpen)
          => /\ UNCHANGED <<connectionStatus, isConnected, isConnecting,
                            lastMessage, ws, transports, timers,
                            reconnectTimeoutRef, reconnectCountRef>>
             /\ IF m = "<circular>"
                THEN /\ log' = <<>>
                     /\ written' = "<none>"
                     /\ error' = "Failed to send message"
                ELSE /\ log' = <<"send">>
                     /\ written' = (IF m = "ping" THEN "ping"
                                    ELSE "{\"type\":\"ping\"}")
                     /\ error' = error ]_vars

\* A string has just been written as it is to the open current transport.
C21_Witness ==
    /\ CurrentOpen
    /\ connectionStatus = "connected"
    /\ log = <<"send">>
    /\ written = "ping"
    /\ error = NoError

\* C22: as long as the component is mounted the mounted flag is true,
\* whatever re-renders have happened, and with autoConnect true the open
\* event of the current transport is handled: the status becomes
\* 'connected'.
C22_MountedWhileMounted ==
    [][ /\ phase' = "mounted" => isMountedRef'
        /\ \A t \in DOMAIN transports :
              (t = ws /\ autoConnect /\ phase = "mounted" /\ OpenEvent(t))
              => connectionStatus' = "connected" ]_vars

\* C23: at most one retry timer is pending, namely the one that
\* reconnectTimeoutRef holds, and no timer is pending after disconnect().
C23_SinglePendingTimer ==
    [][ /\ timers' \subseteq {reconnectTimeoutRef'}
        /\ Disconnect => timers' = {} ]_vars

\* C24: the status leaves 'connected' only through an error or close event
\* of the current transport or through disconnect() (called by the consumer
\* or by a cleanup); and an error or close event of a transport that is not
\* the current one, handled while mounted, changes neither the reported
\* state nor the retry state.
C24_StateOfCurrentTransport ==
    [][ /\ (connectionStatus = "connected" /\ connectionStatus' # "connected")
           => \/ Disconnect \/ Rerender \/ Unmount
              \/ (ws # 0 /\ (FailEvent(ws) \/ \E c \in BOOLEAN : CloseEvent(ws, c)))
        /\ \A t \in DOMAIN transports :
              ( /\ ws # 0 /\ t # ws /\ isMountedRef
                /\ (FailEvent(t) \/ \E c \in BOOLEAN : CloseEvent(t, c)) )
              => UNCHANGED <<connectionStatus, isConnected, isConnecting,
                             error, timers, reconnectTimeoutRef,
                             reconnectCountRef>> ]_vars

\* C25: in every state isConnected is true exactly when the status is
\* 'connected', isConnecting exactly when it is 'connecting', and the two
\* flags are never both true.
C25_FlagsAgreeWithStatus ==
    /\ isConnected <=> (connectionStatus = "connected")
    /\ isConnecting <=> (connectionStatus = "connecting")
    /\ ~(isConnected /\ isConnecting)

\* A transport that had delivered a message has just failed: the error
\* handler left isConnected alone and the close handler cleared it.
C25_Witness ==
    /\ connectionStatus = "error"
    /\ ~isConnected
    /\ ~isConnecting
    /\ lastMessage # NoMessage
    /\ log = <<"onError", "onClose(abnormal)", "setTimeout">>

\* C26: the retry counter always lies between 0 and reconnectAttempts, and
\* with reconnectAttempts = 0 no retry timer is ever pending.
C26_CounterInRange ==
    /\ reconnectCountRef >= 0
    /\ reconnectCountRef <= reconnectAttempts
    /\ reconnectAttempts = 0 => timers = {}

\* The last retry the budget allows has just been scheduled: the counter has
\* reached reconnectAttempts.
C26_Witness ==
    /\ reconnectAttempts >= 2
    /\ reconnectCountRef = reconnectAttempts
    /\ "setTimeout" \in {log[i] : i \in DOMAIN log}
    /\ reconnectTimeoutRef \in timers

\* C27: connect() called by the consumer leaves the retry counter as it is;
\* an abnormal close that finds the counter at reconnectAttempts schedules
\* no retry and leaves the counter there; and the counter goes down only
\* when an open event is handled or disconnect() runs (called by the
\* consumer or by an effect cleanup).
C27_ConnectKeepsCounter ==
    [][ /\ Connect => reconnectCountRef' = reconnectCountRef
        /\ \A t \in DOMAIN transports :
              ( /\ CloseEvent(t, FALSE) \/ FailEvent(t)
                /\ reconnectCountRef = reconnectAttempts )
              => /\ timers' = timers
                 /\ reconnectCountRef' = reconnectCountRef
        /\ reconnectCountRef' < reconnectCountRef
           => \/ Disconnect \/ Rerender \/ Unmount
              \/ \E t \in DOMAIN transports : OpenEvent(t) ]_vars

\* The one retry the budget allows has been used and has failed; the
\* consumer has just called connect(), which created the third transport and
\* left the counter at reconnectAttempts.
C27_Witness ==
    /\ isMountedRef
    /\ ~exhausted
    /\ reconnectAttempts = 1
    /\ reconnectCountRef = 1
    /\ reconnectTimeoutRef = 1
    /\ timers = {}
    /\ ws = 3
    /\ transports[2] = ClosedTransport
    /\ log = <<"new WebSocket">>
    /\ connectionStatus = "connecting"

ViewerSocketIsOpen == effectWs # 0 /\ sockets[effectWs] = OPEN

\* C29: when websocketUrl or isStreaming changes or the viewer unmounts, the
\* socket of the previous values is closing or closed afterwards; after
\* every step of the mounted viewer its status is 'connected' exactly when
\* the socket of the current values is open; and the end of another socket's
\* connection leaves the status 'connected' while the current socket is open.
C29_LiveMeansCurrentOpen ==
    [][ /\ ((StreamingChange \/ ViewerUnmount) /\ effectWs # 0)
           => sockets'[effectWs] \in {CLOSING, CLOSED}
        /\ lvPhase' = "mounted"
           => ((lvConnectionStatus' = "connected") <=> ViewerSocketIsOpen')
        /\ \A t \in DOMAIN sockets :
              (t # effectWs /\ ViewerSocketIsOpen /\ SocketClose(t))
              => lvConnectionStatus' = "connected" ]_viewerVars

\* a occurs in b, in order, possibly with other elements in between.
IsSubseq(a, b) ==
    \E f \in [DOMAIN a -> DOMAIN b] :
        /\ \A i \in DOMAIN a : b[f[i]] = a[i]
        /\ \A i, k \in DOMAIN a : i < k => f[i] < f[k]

\* C30: a line received from the stream is appended at the end of the
\* displayed list, and while the viewer is mounted the lines appended from
\* the stream are all in the displayed list, in arrival order, whatever the
\* logs prop, the search query and the level filter have become since.
C30_StreamedLinesStay ==
    [][ /\ \A t \in DOMAIN sockets, frame \in ViewerFrames :
              (SocketMessage(t, frame) /\ StreamLine(frame) # "")
              => filteredLogs' = Append(filteredLogs, StreamLine(frame))
        /\ lvPhase' = "mounted" => IsSubseq(streamed', filteredLogs') ]_viewerVars

====
